---- MODULE Spec2Model ----
(***************************************************************************)
(* Model of the Epic FHIR client (src/src/epic_client.py): the token       *)
(* cache of EpicFHIRClient.get_token, the token exchange of                *)
(* _request_token, the scope derivation of _determine_scopes and the       *)
(* authenticated GET of fhir_request.                                      *)
(*                                                                         *)
(* The client runs on one asyncio event loop: the code between two awaits  *)
(* is one atomic step.  A fhir_request call therefore has three steps:     *)
(*   - FhirRequestStart: lines 177-178, get_token lines 132-141 up to the  *)
(*     await of the POST (line 105), or, on a cache hit, on to the await   *)
(*     of the GET (line 187);                                              *)
(*   - TokenResponse: the POST completes; lines 108-121, 142-147 and       *)
(*     180-187 up to the await of the GET;                                 *)
(*   - ResourceResponse: the GET completes; lines 188-190.                 *)
(* Time is counted in minutes; the environment advances it at any moment.  *)
(***************************************************************************)
EXTENDS Integers, Sequences, FiniteSets

\* ---------------------------------------------------------------- bounds
NumCalls == 2        \* concurrent fhir_request calls
MaxTime == 2         \* the clock stops advancing here
MaxExpiresIn == 7    \* largest expires_in (minutes) the token endpoint reports
MaxPathLen == 3      \* longest path given to _determine_scopes in ScopeSpec
MaxToolCalls == 2    \* tool calls the server handles in ServerSpec
MaxEntries == 2      \* longest entry list of a bundle in FormatSpec
MaxTotal == 2        \* largest total field of a bundle in FormatSpec

\* ------------------------------------------------------ program constants
Margin == 5          \* timedelta(minutes=5), the buffer of line 135

Calls == 1..NumCalls
\* self._token_cache = None (line 46).  A TokenCache is token and expiry;
\* scopes records the scope string sent in the exchange that obtained it.
None == [token |-> 0, expiry |-> 0, scopes |-> <<>>]

Chars == {"P", "p", "/", "?"}
\* The paths fetched in Spec: "P/p" and "p?P".
FetchPaths == {<<"P", "/", "p">>, <<"p", "?", "P">>}
\* Every path of at most MaxPathLen characters, for ScopeSpec.
AllPaths == UNION {[1..n -> Chars] : n \in 0..MaxPathLen}

\* Responses of the token endpoint: a status and what the body is.
TokenStatuses == {200, 401}
TokenBodies == {"token", "not_json", "no_access_token", "no_expires_in"}
\* expires_in (the code's seconds, here in minutes): none, the margin
\* itself, and longer.
ExpiresInValues == {0, Margin} \cup (Margin + 1)..MaxExpiresIn
\* Responses of the resource endpoint.
ResourceStatuses == {200, 401, 403, 404}
ResourceBodies == {"document", "not_json"}

VARIABLES
    clock,    \* datetime.now(), in minutes
    keyOk,    \* the private key file is readable and signs (lines 60-61, 81)
    cache,    \* self._token_cache
    call,     \* per fhir_request call: its position and locals
    probe,    \* ScopeSpec: a path and the scopes derived from it
    drawn,    \* how many uuid4 values _generate_jwt has drawn (line 75)
    sent,     \* the jti values of the assertions sent to the token endpoint
    env,      \* the environment EpicConfig.from_env reads
    server,   \* the transport, its phase, and the global epic_client
    tool,     \* the call_tool invocation being handled
    served,   \* call_tool invocations answered so far
    fmt       \* a bundle document on its way through format_bundle_response

\* The client (src/src/epic_client.py).
coreVars == <<clock, keyOk, cache, call, probe, drawn, sent>>

\* The server around it (src/src/server.py, src/src/config.py).
serverVars == <<env, server, tool, served, fmt>>

vars == <<coreVars, serverVars>>

\* The client is constructed and the transport is accepting calls.
Serving(transport) ==
    [transport |-> transport, phase |-> "serving", client |-> "open",
     error |-> "none"]

\* No call_tool invocation is in progress.
NoText == [kind |-> "none", type |-> "none", err |-> "none", doc |-> "none"]
NoTool ==
    [pc |-> "none", name |-> "none", args |-> {}, path |-> <<>>,
     fetches |-> 0, items |-> 0, text |-> NoText]

\* A bundle document with neither a total nor an entry field.
EmptyBundle ==
    [hasTotal |-> FALSE, total |-> 0, hasEntry |-> FALSE, entry |-> <<>>]

\* No document is being formatted.  bundle: the document fhir_request
\* returned; type: the resource type of the branch; given: the document the
\* formatter received; out: the items it joined with newlines.
NoFmt ==
    [bundle |-> EmptyBundle, type |-> "none", given |-> EmptyBundle,
     out |-> <<>>, done |-> FALSE]

NoProbe == [path |-> <<>>, scopes |-> <<>>, derived |-> FALSE]

\* A response as the client sees it: a transport failure (timeout, connection
\* error: the await raises) or an HTTP response.
Timeout == [kind |-> "timeout", status |-> 0, body |-> "none", expiresIn |-> 0]
TokenResponses ==
    {Timeout}
    \cup {[kind |-> "http", status |-> s, body |-> "error", expiresIn |-> 0] :
              s \in TokenStatuses \ {200}}
    \cup {[kind |-> "http", status |-> 200, body |-> b, expiresIn |-> 0] :
              b \in TokenBodies \ {"token"}}
    \cup {[kind |-> "http", status |-> 200, body |-> "token", expiresIn |-> e] :
              e \in ExpiresInValues}
ResourceResponses ==
    {Timeout}
    \cup {[kind |-> "http", status |-> s, body |-> "error", expiresIn |-> 0] :
              s \in ResourceStatuses \ {200}}
    \cup {[kind |-> "http", status |-> 200, body |-> b, expiresIn |-> 0] :
              b \in ResourceBodies}

\* A call's locals.  pc: idle, post (awaiting line 105), get (awaiting line
\* 187), done (line 190 returned), failed (an exception left fhir_request).
\* path: the argument; now: line 132; tok: what get_token returned (0: not
\* yet); hit: it came from the cache; bearer: the token of the Authorization
\* header (line 182).  These are gone when the call ends.  What stays of an
\* ended call: posts, gets (requests it sent), err, status (the exception and
\* the status of the response it carries, 0: none), doc (the document).
IdleCall ==
    [pc |-> "idle", path |-> <<>>, now |-> 0, hit |-> FALSE, tok |-> 0,
     bearer |-> 0, posts |-> 0, gets |-> 0,
     err |-> "none", status |-> 0, doc |-> "none"]

\* ------------------------------------------------- _determine_scopes
RECURSIVE SplitFirst(_, _)
\* s.split(sep)[0]: the text before the first sep, all of s when there is none.
SplitFirst(s, sep) ==
    IF s = <<>> THEN <<>>
    ELSE IF Head(s) = sep THEN <<>>
    ELSE <<Head(s)>> \o SplitFirst(Tail(s), sep)

\* A derivation that forgets the query separator.
ResourceTypeSlashOnly(path) == SplitFirst(path, "/")

\* line 159: path.split("/")[0].split("?")[0]
ResourceType(path) == SplitFirst(SplitFirst(path, "/"), "?")

\* line 161: [f"system/{resource_type}.rs"]
DetermineScopes(path) == << <<"system/">> \o ResourceType(path) \o <<".rs">> >>

\* ------------------------------------------------------------ get_token
\* A cache keyed by the scopes of the exchange that filled it.
CacheHitSameScopes(now, scopes) ==
    cache /= None /\ now < cache.expiry - Margin /\ scopes = cache.scopes

\* line 135: self._token_cache and now < expiry - timedelta(minutes=5);
\* scopes is get_token's argument, which the test does not read.
CacheHit(now, scopes) == cache /= None /\ now < cache.expiry - Margin

\* An expiry counted from the arrival of the response.
NewExpiryAtResponse(now, respTime, expiresIn) == respTime + expiresIn

\* line 144: expiry = now + timedelta(seconds=expires_in), now being the
\* time read at line 132 and respTime the time the response arrived.
NewExpiry(now, respTime, expiresIn) == now + expiresIn

\* A failure handler that drops the cached token.
CacheClearedOnFailure(c) == None

\* An exception raised in lines 105-144 leaves line 142 unexecuted.
CacheAfterFailure(c) == c

\* A status check that lets 404 through as an empty success.
IsSuccessOr404(status) == status \in {200, 404}

\* response.raise_for_status() (lines 117, 188) raises unless 2xx; 200 is
\* the one 2xx status of TokenStatuses and ResourceStatuses.
IsSuccess(status) == status = 200

\* A request whose header is built from the shared cache as the step finds it.
IssueGetCachedBearer(c, token) ==
    [c EXCEPT !.pc = "get", !.bearer = cache.token, !.gets = @ + 1]

\* lines 180-187: build the request with the token get_token returned and
\* await the GET.
IssueGet(c, token) ==
    [c EXCEPT !.pc = "get", !.bearer = token, !.gets = @ + 1]

\* The call ends: its locals are gone, its counters and outcome stay.
End(c, pc, err, status, doc) ==
    [IdleCall EXCEPT !.pc = pc, !.posts = c.posts, !.gets = c.gets,
                     !.err = err, !.status = status, !.doc = doc]

\* An exception leaves fhir_request.
Raise(c, err, status) == End(c, "failed", err, status, "none")

\* A nonce taken from the clock, as iat, nbf and exp are (lines 63, 76-78).
JtiFromClock(n, now) == now

\* line 75: str(uuid.uuid4()), the n+1st value drawn in this process; a
\* uuid4 is taken to differ from every one drawn before.
NewJti(n, now) == n + 1

\* lines 177-178 and get_token lines 132-141, _request_token lines 92-105.
FhirRequestStart(p, path) ==
    /\ call[p].pc = "idle"
    /\ LET scopes == DetermineScopes(path)
           now == clock
           c0 == [call[p] EXCEPT !.path = path, !.now = now]
       IN IF CacheHit(now, scopes)
          THEN \* lines 136-137, then 180-187
               /\ call' = [call EXCEPT ![p] =
                      IssueGet([c0 EXCEPT !.hit = TRUE, !.tok = cache.token],
                               cache.token)]
               /\ UNCHANGED <<drawn, sent>>
          ELSE IF ~keyOk
          THEN \* _generate_jwt raises at line 60 or 81: no POST is sent
               /\ call' = [call EXCEPT ![p] = Raise(c0, "SigningError", 0)]
               /\ UNCHANGED <<drawn, sent>>
          ELSE \* lines 92-105: a new assertion is signed, the POST that
               \* carries it is sent and awaited
               /\ call' = [call EXCEPT ![p] =
                      [c0 EXCEPT !.pc = "post", !.posts = @ + 1]]
               /\ drawn' = drawn + 1
               /\ sent' = sent \cup {NewJti(drawn, now)}
    /\ UNCHANGED <<clock, keyOk, cache, probe>>

\* A store that keeps a token another call has stored meanwhile.
StoredUnlessFilled(p, resp) ==
    IF cache /= None THEN cache
    ELSE [token |-> p,
          expiry |-> NewExpiry(call[p].now, clock, resp.expiresIn),
          scopes |-> DetermineScopes(call[p].path)]

\* A store that keeps the cached token when it expires later than the new.
StoredOnlyIfLater(p, resp) ==
    IF cache /= None
       /\ cache.expiry >= NewExpiry(call[p].now, clock, resp.expiresIn)
    THEN cache
    ELSE [token |-> p,
          expiry |-> NewExpiry(call[p].now, clock, resp.expiresIn),
          scopes |-> DetermineScopes(call[p].path)]

\* lines 142-145: the TokenCache built from call p's response.  The
\* access_token of call p's exchange is p.
StoredToken(p, resp) ==
    [token |-> p,
     expiry |-> NewExpiry(call[p].now, clock, resp.expiresIn),
     scopes |-> DetermineScopes(call[p].path)]

\* The POST of line 105 completes: _request_token lines 105-121, get_token
\* lines 142-147, fhir_request lines 180-187.
TokenResponse(p, resp) ==
    /\ call[p].pc = "post"
    /\ IF resp.kind = "timeout"
       THEN \* line 105 raises httpx.TimeoutException (a TransportError)
            /\ call' = [call EXCEPT ![p] = Raise(@, "TransportError", 0)]
            /\ cache' = CacheAfterFailure(cache)
       ELSE IF ~IsSuccess(resp.status)
       THEN \* line 117
            /\ call' = [call EXCEPT ![p] =
                            Raise(@, "HTTPStatusError", resp.status)]
            /\ cache' = CacheAfterFailure(cache)
       ELSE IF resp.body = "not_json"
       THEN \* line 119
            /\ call' = [call EXCEPT ![p] = Raise(@, "JSONDecodeError", 0)]
            /\ cache' = CacheAfterFailure(cache)
       ELSE IF resp.body \in {"no_access_token", "no_expires_in"}
       THEN \* lines 143, 144
            /\ call' = [call EXCEPT ![p] = Raise(@, "KeyError", 0)]
            /\ cache' = CacheAfterFailure(cache)
       ELSE \* lines 142-147: store, then return self._token_cache.token
            /\ cache' = StoredToken(p, resp)
            /\ call' = [call EXCEPT ![p] =
                   IssueGet([@ EXCEPT !.tok = cache'.token], cache'.token)]
    /\ UNCHANGED <<clock, keyOk, probe, drawn, sent>>

\* A handler that starts the request over after a 401 on the GET.
RetryAfter401(c, err, status) ==
    IF status = 401 THEN [c EXCEPT !.pc = "idle"] ELSE Raise(c, err, status)

\* After a failed GET nothing more is sent: the exception leaves fhir_request.
AfterGetFailure(c, err, status) == Raise(c, err, status)

\* A handler that drops the cached token when the GET answers 401.
CacheDroppedOn401(c, resp) == IF resp.status = 401 THEN None ELSE c

\* lines 187-190 do not touch self._token_cache.
CacheAfterGet(c, resp) == c

\* The GET of line 187 completes: lines 187-190.
ResourceResponse(p, resp) ==
    /\ call[p].pc = "get"
    /\ call' = [call EXCEPT ![p] =
           IF resp.kind = "timeout"
           THEN AfterGetFailure(@, "TransportError", 0)
           ELSE IF ~IsSuccess(resp.status)
           THEN AfterGetFailure(@, "HTTPStatusError", resp.status)
           ELSE IF resp.body = "not_json"
           THEN AfterGetFailure(@, "JSONDecodeError", 0)
           ELSE End(@, "done", "none", 0, resp.body)]
    /\ cache' = CacheAfterGet(cache, resp)
    /\ UNCHANGED <<clock, keyOk, probe, drawn, sent>>

\* Time passes.
Tick ==
    /\ clock < MaxTime
    /\ clock' = clock + 1
    /\ UNCHANGED <<keyOk, cache, call, probe, drawn, sent>>

----
\* The client as __init__ leaves it (lines 42-47), before any request.
CoreInit ==
    /\ clock = 0
    /\ cache = None
    /\ call = [p \in Calls |-> IdleCall]
    /\ probe = NoProbe
    /\ drawn = 0
    /\ sent = {}

\* Spec: the client alone, constructed with a key file that exists, under
\* NumCalls concurrent fhir_request calls.
Init ==
    /\ CoreInit
    /\ keyOk \in BOOLEAN
    /\ env = [clientId |-> TRUE, keyExists |-> TRUE]
    /\ server = Serving("stdio")
    /\ tool = NoTool
    /\ served = 0
    /\ fmt = NoFmt

Next ==
    \/ \E p \in Calls, path \in FetchPaths :
           FhirRequestStart(p, path) /\ UNCHANGED serverVars
    \/ \E p \in Calls, resp \in TokenResponses :
           TokenResponse(p, resp) /\ UNCHANGED serverVars
    \/ \E p \in Calls, resp \in ResourceResponses :
           ResourceResponse(p, resp) /\ UNCHANGED serverVars
    \/ Tick /\ UNCHANGED serverVars

Spec == Init /\ [][Next]_vars

\* ------------------------------------------------------------ ScopeSpec
\* _determine_scopes applied to every path of at most MaxPathLen characters.
ScopeInit ==
    /\ clock = 0
    /\ keyOk = TRUE
    /\ cache = None
    /\ call = [p \in Calls |-> IdleCall]
    /\ drawn = 0
    /\ sent = {}
    /\ env = [clientId |-> TRUE, keyExists |-> TRUE]
    /\ server = Serving("stdio")
    /\ tool = NoTool
    /\ served = 0
    /\ fmt = NoFmt
    /\ probe \in {[path |-> x, scopes |-> <<>>, derived |-> FALSE] : x \in AllPaths}

DeriveScopes ==
    /\ ~probe.derived
    /\ probe' = [probe EXCEPT !.scopes = DetermineScopes(probe.path),
                              !.derived = TRUE]
    /\ UNCHANGED <<clock, keyOk, cache, call, drawn, sent>>
    /\ UNCHANGED serverVars

ScopeNext == DeriveScopes

ScopeSpec == ScopeInit /\ [][ScopeNext]_vars

\* ------------------------------------------------------------ ServerSpec
\* The server around the client: startup (lifespan, run_stdio), call_tool
\* and _execute_tool, shutdown.  One call_tool invocation is followed at a
\* time, on the client's call 1; concurrent calls on the client are the
\* subject of Spec.  Nothing awaits between fhir_request's end and
\* call_tool's return, so each step of the call is one step of fhir_request
\* together with what call_tool does after it.

\* src/src/tools.py 6-130: the names of EPIC_FHIR_TOOLS.
Catalog ==
    {"get_patient", "search_patients", "get_patient_conditions",
     "get_patient_medications", "get_patient_observations",
     "get_patient_allergies", "get_patient_immunizations",
     "get_patient_procedures"}

\* The names a caller may send: the catalog and a name outside it.
ToolNames == Catalog \cup {"delete_patient"}

\* The argument names a caller may send.
ArgSets == SUBSET {"patient_id", "category"}

\* The names _execute_tool has a branch for (server.py 99-131).
Branches ==
    {"get_patient", "search_patients", "get_patient_conditions",
     "get_patient_medications", "get_patient_observations",
     "get_patient_allergies", "get_patient_immunizations",
     "get_patient_procedures"}

\* The branches that read arguments["patient_id"] (server.py 100-130); the
\* search_patients branch passes the arguments on as they are (line 104).
NeedsPatientId(name) == name /= "search_patients"

\* The medications wrapper asking for Medication resources.
FetchPathMedication(name) ==
    CASE name = "get_patient" -> <<"Patient", "/", "id">>
      [] name = "search_patients" -> <<"Patient">>
      [] name = "get_patient_conditions" -> <<"Condition">>
      [] name = "get_patient_medications" -> <<"Medication">>
      [] name = "get_patient_observations" -> <<"Observation">>
      [] name = "get_patient_allergies" -> <<"AllergyIntolerance">>
      [] name = "get_patient_immunizations" -> <<"Immunization">>
      [] name = "get_patient_procedures" -> <<"Procedure">>

\* The path the branch's convenience method gives to fhir_request
\* (epic_client.py 194-231); the patient id and the category travel as
\* query parameters, except in get_patient (line 196).
FetchPath(name) ==
    CASE name = "get_patient" -> <<"Patient", "/", "id">>
      [] name = "search_patients" -> <<"Patient">>
      [] name = "get_patient_conditions" -> <<"Condition">>
      [] name = "get_patient_medications" -> <<"MedicationRequest">>
      [] name = "get_patient_observations" -> <<"Observation">>
      [] name = "get_patient_allergies" -> <<"AllergyIntolerance">>
      [] name = "get_patient_immunizations" -> <<"Immunization">>
      [] name = "get_patient_procedures" -> <<"Procedure">>

\* The formatter of the branch and the type it is given (server.py 101-131):
\* format_patient_response for get_patient, format_bundle_response else.
Formatter(name) ==
    IF name = "get_patient" THEN "patient" ELSE "bundle"

FormatType(name) ==
    CASE name = "get_patient" -> "Patient"
      [] name = "search_patients" -> "Patient"
      [] name = "get_patient_conditions" -> "Condition"
      [] name = "get_patient_medications" -> "MedicationRequest"
      [] name = "get_patient_observations" -> "Observation"
      [] name = "get_patient_allergies" -> "AllergyIntolerance"
      [] name = "get_patient_immunizations" -> "Immunization"
      [] name = "get_patient_procedures" -> "Procedure"

\* A handler that catches only the HTTP client's errors.
CaughtHttpOnly(err) == err \in {"HTTPStatusError", "TransportError"}

\* server.py 83: except Exception.  Every error raised below call_tool is an
\* Exception; the CancelledError of a cancelled task is not one.
Caught(err) == err /= "CancelledError"

\* server.py 76, 82, 86: the list of one TextContent call_tool returns.
Return(t, text) == [t EXCEPT !.pc = "returned", !.items = 1, !.text = text]

\* server.py 80-86: an exception reaches the try block of call_tool.
AfterRaise(t, err) ==
    IF Caught(err)
    THEN Return(t, [NoText EXCEPT !.kind = "error", !.err = err])
    ELSE [t EXCEPT !.pc = "raised", !.text = [NoText EXCEPT !.err = err]]

\* server.py 99-131 after the await: fhir_request raised, or it returned the
\* document and the formatter rendered it or raised on its shape
\* (tools.py 146: the first element of an empty name list).
AfterCore(t, c, rendered) ==
    IF c.pc = "failed" THEN AfterRaise(t, c.err)
    ELSE IF c.pc = "done"
    THEN IF rendered
         THEN Return(t, [kind |-> Formatter(t.name), type |-> FormatType(t.name),
                         err |-> "none", doc |-> c.doc])
         ELSE AfterRaise(t, "IndexError")
    ELSE [t EXCEPT !.pc = "running"]

\* server.py 155-168, 220-235 with config.py 23-45: from_env raises when
\* EPIC_CLIENT_ID is unset or the key path does not exist, and the error
\* leaves the transport; else the client is constructed (epic_client.py
\* 27-47 reads nothing) and the transport starts accepting calls.
Startup ==
    /\ server.phase = "boot"
    /\ server' =
         IF ~env.clientId
         THEN [server EXCEPT !.phase = "refused", !.error = "ValueError"]
         ELSE IF ~env.keyExists
         THEN [server EXCEPT !.phase = "refused", !.error = "FileNotFoundError"]
         ELSE Serving(server.transport)
    /\ UNCHANGED <<coreVars, env, tool, served, fmt>>

\* server.py 62-134 up to the first await: call_tool is entered.
ToolStart(name, args) ==
    /\ server.phase = "serving"
    /\ tool.pc = "none"
    /\ served < MaxToolCalls
    /\ LET t == [tool EXCEPT !.name = name, !.args = args] IN
       IF server.client /= "open"
       THEN /\ tool' = Return(t, [NoText EXCEPT !.kind = "uninitialized"])
            /\ UNCHANGED coreVars
       ELSE IF name \notin Branches
       THEN /\ tool' = Return(t, [NoText EXCEPT !.kind = "unknown"])
            /\ UNCHANGED coreVars
       ELSE IF NeedsPatientId(name) /\ "patient_id" \notin args
       THEN /\ tool' = AfterRaise(t, "KeyError")
            /\ UNCHANGED coreVars
       ELSE /\ FhirRequestStart(1, FetchPath(name))
            /\ tool' = AfterCore([t EXCEPT !.path = FetchPath(name),
                                           !.fetches = t.fetches + 1],
                                 call'[1], TRUE)
    /\ UNCHANGED <<env, server, served, fmt>>

\* The token endpoint answers the call's POST.
ToolTokenResponse(resp) ==
    /\ tool.pc = "running"
    /\ TokenResponse(1, resp)
    /\ tool' = AfterCore(tool, call'[1], TRUE)
    /\ UNCHANGED <<env, server, served, fmt>>

\* The FHIR server answers the call's GET; the formatter renders the
\* document or raises on it.
ToolResourceResponse(resp, rendered) ==
    /\ tool.pc = "running"
    /\ ResourceResponse(1, resp)
    /\ tool' = AfterCore(tool, call'[1], rendered)
    /\ UNCHANGED <<env, server, served, fmt>>

\* The transport has sent the answer; the next call may come.
ToolDelivered ==
    /\ server.phase = "serving"
    /\ tool.pc \in {"returned", "raised"}
    /\ tool' = NoTool
    /\ call' = [call EXCEPT ![1] = IdleCall]
    /\ served' = served + 1
    /\ UNCHANGED <<clock, keyOk, cache, probe, drawn, sent, env, server, fmt>>

\* A finally block that is reached only when serving ends without error.
ClientLeftOpenOnError(how) ==
    IF how = "exception" THEN "open" ELSE "closed"

\* server.py 173-177, 239-241: finally, if epic_client: close().
ClientAfterServing(how) == "closed"

\* server.py 167-177, 230-241: the transport stops (shutdown), or an
\* exception leaves it; a call still awaiting the network is cancelled at
\* its await, and the finally block runs.
ServeEnd(how) ==
    /\ server.phase = "serving"
    /\ server' = [server EXCEPT !.phase = "stopped",
                                !.client = ClientAfterServing(how),
                                !.error = how]
    /\ IF tool.pc = "running"
       THEN /\ tool' = AfterRaise(tool, "CancelledError")
            /\ call' = [call EXCEPT ![1] = Raise(@, "CancelledError", 0)]
       ELSE UNCHANGED <<tool, call>>
    /\ UNCHANGED <<clock, keyOk, cache, probe, drawn, sent, env, served, fmt>>

Environments == [clientId : BOOLEAN, keyExists : BOOLEAN]

Transports == {"http", "stdio"}

ServerInit ==
    /\ CoreInit
    /\ keyOk \in BOOLEAN
    /\ env \in {e \in Environments : keyOk => e.keyExists}
    /\ server \in {[transport |-> tr, phase |-> "boot", client |-> "none",
                    error |-> "none"] : tr \in Transports}
    /\ tool = NoTool
    /\ served = 0
    /\ fmt = NoFmt

ServerNext ==
    \/ Startup
    \/ \E name \in ToolNames, args \in ArgSets : ToolStart(name, args)
    \/ \E resp \in TokenResponses : ToolTokenResponse(resp)
    \/ \E resp \in ResourceResponses, rendered \in BOOLEAN :
           ToolResourceResponse(resp, rendered)
    \/ ToolDelivered
    \/ \E how \in {"shutdown", "exception"} : ServeEnd(how)
    \/ Tick /\ UNCHANGED serverVars

ServerSpec == ServerInit /\ [][ServerNext]_vars

\* ------------------------------------------------------------ FormatSpec
\* format_bundle_response applied to every bundle of at most MaxEntries
\* entries, as the bundle branches of _execute_tool apply it.

\* An entry is known by its resource; "empty" is an entry without one
\* (tools.py 200: entry.get("resource", {})).
Resources == {"r1", "empty"}

EntryLists == UNION {[1..n -> Resources] : n \in 0..MaxEntries}

\* The parsed documents: total present or not, entry present (and possibly
\* empty) or not.
Bundles ==
    {[hasTotal |-> h, total |-> t, hasEntry |-> e, entry |-> es] :
        h \in BOOLEAN, t \in 0..MaxTotal, e \in BOOLEAN, es \in EntryLists}
    \ {b \in [hasTotal : BOOLEAN, total : 0..MaxTotal, hasEntry : BOOLEAN,
              entry : EntryLists] :
          (~b.hasTotal /\ b.total /= 0) \/ (~b.hasEntry /\ b.entry /= <<>>)}

\* The types the bundle branches pass (server.py 105-131).
BundleTypes == {FormatType(name) : name \in Branches \ {"get_patient"}}

\* tools.py 207-286: the text of one resource, by type.
FormatResource(resource, type) == <<type, resource>>

\* The header counting the entries whatever the total field says.
BundleTotalFromEntries(bundle) == Len(bundle.entry)

\* tools.py 194: bundle.get("total", len(bundle.get("entry", []))).
BundleTotal(bundle) ==
    IF bundle.hasTotal THEN bundle.total ELSE Len(bundle.entry)

\* tools.py 181-204: the list joined by "\n", each item as its pieces.
FormatBundleResponse(bundle, type) ==
    IF ~bundle.hasEntry \/ bundle.entry = <<>>
    THEN << <<"No ", type, " found.">> >>
    ELSE << <<"**", "Found ", BundleTotal(bundle), " ", type, "(s)", "**\n">> >>
         \o [i \in 1..Len(bundle.entry) |->
                <<i, ". ", FormatResource(bundle.entry[i], type)>>]

\* server.py 104-105, 108-109, ...: data goes from the await to the
\* formatter as it is.
Handed(data) == data

FormatInit ==
    /\ CoreInit
    /\ keyOk = TRUE
    /\ env = [clientId |-> TRUE, keyExists |-> TRUE]
    /\ server = Serving("stdio")
    /\ tool = NoTool
    /\ served = 0
    /\ fmt \in {[NoFmt EXCEPT !.bundle = b, !.type = t] :
                   b \in Bundles, t \in BundleTypes}

Format ==
    /\ ~fmt.done
    /\ fmt' = [fmt EXCEPT !.given = Handed(fmt.bundle),
                          !.out = FormatBundleResponse(Handed(fmt.bundle),
                                                      fmt.type),
                          !.done = TRUE]
    /\ UNCHANGED <<coreVars, env, server, tool, served>>

FormatNext == Format

FormatSpec == FormatInit /\ [][FormatNext]_vars



----
\* get_token returns to call p in this step (tok is 0 before and after the
\* call, and the returned token while the GET is prepared and awaited).
Returns(p) == call[p].tok = 0 /\ call'[p].tok /= 0

\* fhir_request, and get_token in it, starts for call p in this step.
Starts(p) == call[p].pc = "idle" /\ call'[p].pc /= "idle"

\* The cached token is more than the margin before its expiry.
Fresh == cache /= None /\ clock < cache.expiry - Margin

\* C1: whenever get_token returns a token, from the cache or from an
\* exchange, the expiry recorded for it is more than 5 minutes after the
\* moment of the return.
C1_ReturnedTokenOutsideMargin ==
    [][\A p \in Calls :
          Returns(p) => /\ cache'.token = call'[p].tok
                        /\ cache'.expiry - clock' > Margin]_vars

\* C2: a get_token call sends no request to the token endpoint when the
\* cached token is more than 5 minutes before its expiry, and exactly one
\* otherwise.
C2_OneRequestOnMiss ==
    [][\A p \in Calls :
          Starts(p) => call'[p].posts = (IF Fresh THEN 0 ELSE 1)]_vars

\* C3: the cache changes only to the access_token of one successful exchange
\* paired with the expiry of that same exchange, the start time of its
\* get_token call plus the expires_in of its response, and that call
\* returns that access_token.
C3_CachePairsOneExchange ==
    [][cache' /= cache =>
          \E p \in Calls, r \in TokenResponses :
              /\ r.kind = "http" /\ r.status = 200 /\ r.body = "token"
              /\ TokenResponse(p, r)
              /\ cache'.token = p
              /\ cache'.expiry = call[p].now + r.expiresIn
              /\ call'[p].tok = p]_vars

\* C3 witness: call 1's exchange is in the cache, stored after the clock had
\* advanced past the start of the call.
C3_Witness ==
    /\ call[1].pc = "get" /\ ~call[1].hit /\ call[1].tok = 1
    /\ cache.token = 1
    /\ call[1].now = 0 /\ clock > 0 /\ cache.expiry = MaxExpiresIn

\* C4: a get_token call made while the cached token is more than 5 minutes
\* before its expiry returns that token and sends no request, whatever its
\* scopes and whatever the scopes the token was obtained with.
C4_ScopesDoNotAffectHit ==
    [][\A p \in Calls :
          (Starts(p) /\ Fresh) =>
              /\ call'[p].pc = "get"
              /\ call'[p].tok = cache.token
              /\ call'[p].posts = 0
              /\ cache' = cache]_vars

\* C4 witness: a call was served the cached token although its scopes differ
\* from those of the exchange that obtained it.
C4_Witness ==
    \E p \in Calls :
        /\ call[p].pc = "get" /\ call[p].hit
        /\ call[p].tok = cache.token
        /\ DetermineScopes(call[p].path) /= cache.scopes

\* C5: a failed token exchange leaves the cached token and its expiry as
\* they were immediately before the failure.
C5_FailureKeepsCache ==
    [][\A p \in Calls :
          (call[p].pc = "post" /\ call'[p].pc = "failed") => cache' = cache]_vars

\* C5 witness: an exchange has failed and the cache holds the token of
\* another call's exchange, not yet past its expiry.
C5_Witness ==
    \E p \in Calls :
        /\ call[p].pc = "failed" /\ call[p].posts = 1 /\ call[p].gets = 0
        /\ cache /= None /\ cache.token /= p /\ clock < cache.expiry

\* C6: every get_token call whose exchange receives a non-success status
\* or a malformed body fails with one error kind that carries the status
\* code of the response.
C6_OneErrorKindWithStatus ==
    \A p \in Calls :
        (/\ call[p].pc = "failed" /\ call[p].posts = 1 /\ call[p].gets = 0
         /\ call[p].err /= "TransportError")
        => (call[p].err = "HTTPStatusError" /\ call[p].status /= 0)

\* Call p's exchange succeeds in this step.
Exchanged(p) == call[p].pc = "post" /\ call'[p].pc = "get"

\* C7: a call whose exchange succeeds returns the access_token of its own
\* exchange, also when other calls exchange concurrently, and the cache
\* holds the token of the successful exchange processed last: each such
\* step leaves its own token in the cache and no other step changes it.
C7_OwnTokenLastWins ==
    [][/\ \A p \in Calls :
              Exchanged(p) => /\ call'[p].tok = p
                              /\ call'[p].bearer = p
                              /\ cache'.token = p
       /\ (\A p \in Calls : ~Exchanged(p)) => cache' = cache]_vars

\* C7 witness: both calls have exchanged concurrently (neither was served
\* from the cache), each holds its own token, and the cache holds the token
\* of call 1, processed last.
C7_Witness ==
    /\ \A p \in {1, 2} :
           call[p].pc = "get" /\ ~call[p].hit /\ call[p].tok = p /\ call[p].now = 0
    /\ cache.token = 1 /\ clock = 0

\* The first position of path holding a separator, Len(path) + 1 if none.
FirstSeparator(path) ==
    IF \E i \in 1..Len(path) : path[i] \in {"/", "?"}
    THEN CHOOSE i \in 1..Len(path) :
             /\ path[i] \in {"/", "?"}
             /\ \A j \in 1..(i - 1) : path[j] \notin {"/", "?"}
    ELSE Len(path) + 1

\* C8: the scopes derived from a path are the one scope system/<T>.rs, T
\* being the prefix of the path before its first '/' or '?', case unchanged.
C8_ScopeIsTypePrefix ==
    probe.derived =>
        probe.scopes =
            << <<"system/">>
               \o SubSeq(probe.path, 1, FirstSeparator(probe.path) - 1)
               \o <<".rs">> >>

\* C8 witness: the path "P?p" (as Observation?patient=1) gave system/P.rs.
C8_Witness ==
    /\ probe.derived
    /\ probe.path = <<"P", "?", "p">>
    /\ probe.scopes = << <<"system/", "P", ".rs">> >>

\* C9: a GET that times out or receives a non-success status makes the
\* fetch fail with the httpx error of that case (the status carried when
\* there is a response); a fetch returns a document only when the GET
\* succeeded, and then the document received.
C9_FailedGetRaises ==
    [][\A p \in Calls, r \in ResourceResponses :
          ResourceResponse(p, r) =>
              /\ r.kind = "timeout" =>
                     /\ call'[p].pc = "failed"
                     /\ call'[p].err = "TransportError"
                     /\ call'[p].status = 0
              /\ (r.kind = "http" /\ r.status /= 200) =>
                     /\ call'[p].pc = "failed"
                     /\ call'[p].err = "HTTPStatusError"
                     /\ call'[p].status = r.status
              /\ call'[p].pc = "done" =>
                     /\ r.kind = "http" /\ r.status = 200
                     /\ r.body = "document"
                     /\ call'[p].doc = r.body]_vars

\* C9 witness: a fetch has failed on a 404 from the resource endpoint.
C9_Witness ==
    \E p \in Calls :
        /\ call[p].pc = "failed" /\ call[p].gets = 1
        /\ call[p].err = "HTTPStatusError" /\ call[p].status = 404

\* C10: a fetch sends at most one POST and at most one GET; a failed
\* exchange is followed by no GET, and an ended call sends nothing more.
C10_NoRetry ==
    [][\A p \in Calls :
          /\ call'[p].posts <= 1 /\ call'[p].gets <= 1
          /\ (call[p].pc = "post" /\ call'[p].pc = "failed") => call'[p].gets = 0
          /\ call[p].pc \in {"done", "failed"} => call'[p] = call[p]]_vars

\* C10 witness: a fetch ended on a 401 from the GET after its own exchange,
\* with one POST and one GET sent.
C10_Witness ==
    \E p \in Calls :
        /\ call[p].pc = "failed" /\ call[p].status = 401
        /\ call[p].posts = 1 /\ call[p].gets = 1

\* C13: every request to the token endpoint carries an assertion signed for
\* it alone: each POST adds a jti that no earlier request carried.
C13_FreshJtiPerRequest ==
    [][\A p \in Calls :
          call'[p].posts > call[p].posts =>
              /\ drawn' = drawn + 1
              /\ Cardinality(sent') = Cardinality(sent) + 1]_vars

\* C13 witness: two exchanges started in the same minute, one of them
\* already failed, were sent with two different jti values.
C13_Witness ==
    /\ call[1].pc = "post" /\ call[1].now = clock
    /\ call[2].pc = "failed" /\ call[2].posts = 1
    /\ clock = 0
    /\ Cardinality(sent) = 2

\* The exceptions that leave get_token.
GetTokenErrors ==
    {"SigningError", "TransportError", "HTTPStatusError", "JSONDecodeError",
     "KeyError"}

\* C14: the GET is sent only in the step in which get_token has returned
\* to that call, with exactly the returned token as bearer; a call whose
\* get_token fails sends no GET and ends with get_token's exception.
C14_GetCarriesReturnedToken ==
    [][\A p \in Calls :
          /\ call'[p].gets > call[p].gets =>
                 /\ Returns(p)
                 /\ call'[p].bearer = call'[p].tok
          /\ call'[p].pc = "get" =>
                 /\ call'[p].tok /= 0
                 /\ call'[p].bearer = call'[p].tok
          /\ (call[p].pc \in {"idle", "post"} /\ call'[p].pc = "failed") =>
                 /\ call'[p].gets = 0
                 /\ call'[p].err \in GetTokenErrors]_vars

\* C14 witness: a call awaits its GET with the token get_token returned to
\* it, while the shared cache already holds another call's token.
C14_Witness ==
    \E p \in Calls :
        /\ call[p].pc = "get" /\ call[p].bearer = call[p].tok
        /\ cache.token /= 0 /\ cache.token /= call[p].bearer

\* C15: two calls may both find no usable token and each run its own
\* exchange; a step of one call changes no other call, and a call whose
\* exchange succeeds goes on with its own token.
C15_DuplicatesHarmless ==
    [][\A p \in Calls :
          call'[p] /= call[p] =>
              /\ \A q \in Calls \ {p} : call'[q] = call[q]
              /\ Exchanged(p) =>
                     /\ call'[p].tok = p /\ call'[p].bearer = p
                     /\ call'[p].gets = 1 /\ call'[p].err = "none"]_vars

\* C15 witness: two exchanges are in flight at once, started from an empty
\* cache at the same time.
C15_Witness ==
    /\ call[1].pc = "post" /\ call[2].pc = "post"
    /\ call[1].now = call[2].now
    /\ cache = None
    /\ drawn = 2

\* C19: the step that ends a GET, whatever its response, and the start of a
\* fetch leave the cache as it was; while the cached token is more than 5
\* minutes before its expiry a starting call is served that same token.
C19_CacheFrame ==
    [][\A p \in Calls :
          /\ (call[p].pc = "get" /\ call'[p] /= call[p]) => cache' = cache
          /\ Starts(p) => /\ cache' = cache
                          /\ Fresh => call'[p].tok = cache.token]_vars

\* C19 witness: a fetch ended on a 401 from its GET, and another call was
\* then served the cached token, which is still in the cache.
C19_Witness ==
    \E p, q \in Calls :
        /\ call[p].pc = "failed" /\ call[p].gets = 1 /\ call[p].status = 401
        /\ call[q].pc = "get" /\ call[q].hit /\ call[q].tok = cache.token
        /\ call[q].now > 0

----
C12_BadCredentialRefused ==
    (server.phase /= "boot" /\ (~env.clientId \/ ~keyOk)) =>
        server.phase = "refused" /\ server.client = "none"

\* The resource type the catalog's tool stands for.
C16_Resource ==
    [name \in Catalog |->
        CASE name \in {"get_patient", "search_patients"} -> "Patient"
          [] name = "get_patient_conditions" -> "Condition"
          [] name = "get_patient_medications" -> "MedicationRequest"
          [] name = "get_patient_observations" -> "Observation"
          [] name = "get_patient_allergies" -> "AllergyIntolerance"
          [] name = "get_patient_immunizations" -> "Immunization"
          [] name = "get_patient_procedures" -> "Procedure"]

\* The invocation in progress names a catalog tool and carries the arguments
\* the tool's schema requires (tools.py: patient_id, none for search_patients).
C16_Applies ==
    /\ tool.pc /= "none"
    /\ tool.name \in Catalog
    /\ tool.name = "search_patients" \/ "patient_id" \in tool.args

\* C16: a call_tool naming a catalog tool, with its required arguments, is
\* one fetch and nothing else on the client, on Patient/<id> for get_patient
\* and on the bare resource type of the tool otherwise; the scope derived is
\* system/<type>.rs, the formatter gets that type and the document fetched,
\* and the answer is never 'Unknown tool'.
C16_CatalogToolFetchesItsType ==
    C16_Applies =>
        /\ tool.fetches = 1
        /\ tool.path = IF tool.name = "get_patient"
                       THEN <<"Patient", "/", "id">>
                       ELSE <<C16_Resource[tool.name]>>
        /\ DetermineScopes(tool.path) =
               << <<"system/", C16_Resource[tool.name], ".rs">> >>
        /\ tool.pc = "running" => call[1].path = tool.path
        /\ call[1].posts <= 1 /\ call[1].gets <= 1
        /\ \A p \in Calls \ {1} : call[p] = IdleCall
        /\ tool.text.kind /= "unknown"
        /\ tool.text.kind \in {"patient", "bundle"} =>
               /\ tool.text.type = C16_Resource[tool.name]
               /\ tool.text.doc = call[1].doc
               /\ call[1].gets = 1

\* get_patient_medications answered with the MedicationRequest bundle.
C16_Witness ==
    /\ tool.pc = "returned"
    /\ tool.name = "get_patient_medications"
    /\ tool.args = {"patient_id"}
    /\ tool.text.kind = "bundle"
    /\ tool.text.type = "MedicationRequest"
    /\ tool.fetches = 1
    /\ call[1].gets = 1

\* C17: the formatter receives the document as fetch returned it; when the
\* entry list is absent or empty the text is 'No <type> found.'; otherwise it
\* is a header 'Found N <type>(s)', N the total field if there is one and the
\* number of entries if not, followed by one numbered line per entry.
C17_BundleRendering ==
    fmt.done =>
        /\ fmt.given = fmt.bundle
        /\ IF fmt.bundle.hasEntry /\ Len(fmt.bundle.entry) > 0
           THEN /\ Len(fmt.out) = 1 + Len(fmt.bundle.entry)
                /\ SubSeq(fmt.out[1], 2, 6) =
                       <<"Found ",
                         IF fmt.bundle.hasTotal THEN fmt.bundle.total
                         ELSE Len(fmt.bundle.entry),
                         " ", fmt.type, "(s)">>
                /\ \A i \in 1..Len(fmt.bundle.entry) :
                       /\ fmt.out[i + 1][1] = i
                       /\ fmt.out[i + 1][3] =
                              FormatResource(fmt.bundle.entry[i], fmt.type)
           ELSE /\ Len(fmt.out) = 1
                /\ fmt.out[1] = <<"No ", fmt.type, " found.">>

\* A bundle with total 2 and two Patient entries renders 'Found 2 Patient(s)'.
C17_Witness ==
    /\ fmt.done
    /\ fmt.type = "Patient"
    /\ fmt.bundle.hasTotal /\ fmt.bundle.total = 2
    /\ Len(fmt.bundle.entry) = 2
    /\ SubSeq(fmt.out[1], 2, 6) = <<"Found ", 2, " ", "Patient", "(s)">>
    /\ Len(fmt.out) = 3

\* C18: in both transports the client exists before a tool call is accepted,
\* a tool call works on the client only while it is constructed and not
\* closed, a call_tool that finds no client answers 'not initialized' without
\* a request, and after a successful construction every way out of serving
\* closes the client.
C18_ClientOpenWhileServing ==
    /\ server.phase = "boot" =>
           server.client = "none" /\ tool = NoTool /\ drawn = 0
    /\ server.phase = "refused" =>
           server.client = "none" /\ tool = NoTool /\ served = 0 /\ drawn = 0
    /\ server.phase = "serving" => server.client = "open"
    /\ (tool.pc = "running" \/ call[1].pc \in {"post", "get"}) =>
           server.phase = "serving" /\ server.client = "open"
    /\ server.phase = "stopped" => server.client = "closed"
    /\ tool.text.kind = "uninitialized" =>
           tool.fetches = 0 /\ call[1].posts = 0 /\ call[1].gets = 0

\* The HTTP transport fails while a tool call awaits the network, after
\* another was answered: the call is cancelled and the client closed.
C18_Witness ==
    /\ server.transport = "http"
    /\ server.phase = "stopped"
    /\ server.error = "exception"
    /\ server.client = "closed"
    /\ served >= 1
    /\ tool.pc = "raised"

====
